---- MODULE Spec2Model ----
(***************************************************************************)
(* Model of the schaukasten weekly-overview programs.                      *)
(*                                                                         *)
(*  - src/main.py, generate_overview: walk of the calendar feed with       *)
(*    recurrence expansion, duplicate filtering by UID / LAST-MODIFIED,    *)
(*    grouping by date and the per-date ordering.                          *)
(*    Further the row count, the table style loop and the choice between   *)
(*    table and message, and the date selection of the GUI.                *)
(*  - src/schaukasten/events.py: Title.from_str, Description.from_str and  *)
(*    the pydantic field validators behind them; the EventSpan order.      *)
(*  - src/schaukasten/display.py, terminal.py, main.py: from_eventspan     *)
(*    and the filter loop of confirm_table.                                *)
(*                                                                         *)
(* Days are integers, day 0 being a Monday; a timestamp is a record        *)
(* [day, tod] (calendar day, time of day) read in one time zone.  Every    *)
(* entry carries date-times (no all-day entries), a UID and a              *)
(* LAST-MODIFIED stamp; a recurrence rule is a frequency with a COUNT.     *)
(* Texts are sequences of one-character strings without line breaks.       *)
(***************************************************************************)
EXTENDS Integers, Sequences, FiniteSets, TLC

VARIABLES
    calendar,        \* the VEVENTs of the fetched feed, in walk order
    shallow,         \* whether event.copy() shares the property objects
    current_date,    \* module global current_date
    start_of_week,   \* generate_overview local
    pc,              \* position inside generate_overview
    walked,          \* number of calendar entries the walk has consumed
    events_of_week,  \* generate_overview local, as filled by the walk
    filtered_events, \* generate_overview local, events_of_week after line 223
    events_by_date,  \* generate_overview local
    sorted_by_date,  \* sorted_events of every date column
    err,             \* exception that ended generate_overview, or "none"
    rowamount,       \* generate_overview local
    events_exist,    \* generate_overview local
    elements,        \* the flowables handed to doc.build
    date_label,      \* the date the GUI shows as selected
    text,            \* the raw text handed to a splitter
    parts,           \* the pieces text was joined from
    split_op,        \* which splitter has run on text
    split_out,       \* what it returned
    event_span,      \* the EventSpan the command line program has built
    lang,            \* the language being rendered
    renderable_events, \* the RenderableEventSpan shown to the user
    cli_pc,          \* position inside pdf() and confirm_table
    filter_choice,   \* confirm_table local: the choices last entered
    new_events,      \* confirm_table local
    user_not_yet_confirmed, \* confirm_table local
    returned         \* what confirm_table returned

vars == <<calendar, shallow, current_date, start_of_week, pc, walked,
          events_of_week, filtered_events, events_by_date, sorted_by_date,
          err, rowamount, events_exist, elements, date_label,
          text, parts, split_op, split_out,
          event_span, lang, renderable_events, cli_pc, filter_choice,
          new_events, user_not_yet_confirmed, returned>>

overview_vars == <<calendar, shallow, current_date, start_of_week, pc, walked,
                   events_of_week, filtered_events, events_by_date,
                   sorted_by_date, err, rowamount, events_exist, elements,
                   date_label>>

render_vars == <<rowamount, events_exist, elements>>

split_vars == <<text, parts, split_op, split_out>>

cli_vars == <<event_span, lang, renderable_events, cli_pc, filter_choice,
              new_events, user_not_yet_confirmed, returned>>

---------------------------------------------------------------------------
(* Bounds of the model *)

Today == 9          \* the day the program is started on
MaxTod == 2         \* times of day are 1..MaxTod
MaxCount == 2       \* COUNT of a recurrence rule
MaxFeed == 1        \* entries of a feed of dated/recurring events
MaxDupFeed == 3     \* entries of a feed of same-day events
MaxLM == 2          \* LAST-MODIFIED stamps are 1..MaxLM

(* Program constants *)

DaysToSunday == 6   \* timedelta(days=6)
WeekLen == 7        \* range(7), date.weekday()

---------------------------------------------------------------------------
(* Text *)

NBSP == "nbsp"      \* the character \xa0

\* code points, for Python's str comparison
Ord(c) ==
    CASE c = " " -> 32
      [] c = "-" -> 45
      [] c = "<" -> 60
      [] c = ">" -> 62
      [] c = "_" -> 95
      [] c = "a" -> 97
      [] c = "b" -> 98
      [] c = "c" -> 99
      [] c = "|" -> 124
      [] c = NBSP -> 160

RECURSIVE StrGreater(_, _)
\* Python's s > t on str
StrGreater(s, t) ==
    IF s = <<>> THEN FALSE
    ELSE IF t = <<>> THEN TRUE
    ELSE IF Head(s) = Head(t) THEN StrGreater(Tail(s), Tail(t))
    ELSE Ord(Head(s)) > Ord(Head(t))

---------------------------------------------------------------------------
(* Text splitting: Title.from_str, Description.from_str (events.py) and the
   description split of generate_overview (main.py) *)

None == "None"                  \* Python's None

ValidationError == [error |-> "ValidationError"]

KeinTitel == <<"K", "e", "i", "n", " ", "T", "i", "t", "e", "l">>

UnderscoresLong == 15           \* "_______________"
UnderscoresShort == 14          \* "______________"

Repeat(c, n) == [i \in 1 .. n |-> c]

IsDelimChar(c) == c \in {"-", "_"}

\* str.isspace(), by which str.strip() trims
IsSpace(c) == c \in {" ", NBSP}

\* position of the first ">" behind the head of s, 0 when there is none
ClosingAt(s) ==
    IF \E j \in 2 .. Len(s) : s[j] = ">"
    THEN CHOOSE j \in 2 .. Len(s) :
             s[j] = ">" /\ \A k \in 2 .. (j - 1) : s[k] # ">"
    ELSE 0

RECURSIVE StripTags(_)
\* re.sub(r"<.*?>", "", s)
StripTags(s) ==
    IF s = <<>> THEN <<>>
    ELSE IF Head(s) = "<" /\ ClosingAt(s) # 0
         THEN StripTags(SubSeq(s, ClosingAt(s) + 1, Len(s)))
         ELSE <<Head(s)>> \o StripTags(Tail(s))

IsBreakTag(s) == Len(s) >= 4 /\ SubSeq(s, 2, 4) = <<"b", "r", "/">>

RECURSIVE StripTagsButBreaks(_)
\* re.sub(r'<(?!br/).*?>', '', s)
StripTagsButBreaks(s) ==
    IF s = <<>> THEN <<>>
    ELSE IF Head(s) = "<" /\ ~ IsBreakTag(s) /\ ClosingAt(s) # 0
         THEN StripTagsButBreaks(SubSeq(s, ClosingAt(s) + 1, Len(s)))
         ELSE <<Head(s)>> \o StripTagsButBreaks(Tail(s))

\* s.replace("\xa0", " ")
ReplaceNbsp(s) == [i \in 1 .. Len(s) |-> IF s[i] = NBSP THEN " " ELSE s[i]]

RECURSIVE RunLength(_)
\* length of the run of "-" / "_" at the head of s
RunLength(s) ==
    IF s = <<>> \/ ~ IsDelimChar(Head(s)) THEN 0
    ELSE 1 + RunLength(Tail(s))

RECURSIVE SplitRunsOfFour(_, _)
\* SplitRuns for the pattern [-_]{4,}
SplitRunsOfFour(s, cur) ==
    IF s = <<>> THEN <<cur>>
    ELSE IF RunLength(s) >= 4
         THEN <<cur>> \o
              SplitRunsOfFour(SubSeq(s, RunLength(s) + 1, Len(s)), <<>>)
         ELSE IF RunLength(s) > 0
              THEN SplitRunsOfFour(SubSeq(s, RunLength(s) + 1, Len(s)),
                                   cur \o SubSeq(s, 1, RunLength(s)))
              ELSE SplitRunsOfFour(Tail(s), Append(cur, Head(s)))

RECURSIVE SplitRuns(_, _)
\* re.split(r"[-_]{3,}", s), cur being the piece under construction
SplitRuns(s, cur) ==
    IF s = <<>> THEN <<cur>>
    ELSE IF RunLength(s) >= 3
         THEN <<cur>> \o SplitRuns(SubSeq(s, RunLength(s) + 1, Len(s)), <<>>)
         ELSE IF RunLength(s) > 0
              THEN SplitRuns(SubSeq(s, RunLength(s) + 1, Len(s)),
                             cur \o SubSeq(s, 1, RunLength(s)))
              ELSE SplitRuns(Tail(s), Append(cur, Head(s)))

StartsWith(s, sep) == Len(s) >= Len(sep) /\ SubSeq(s, 1, Len(sep)) = sep

RECURSIVE SplitOn(_, _, _)
\* s.split(sep), cur being the piece under construction
SplitOn(s, sep, cur) ==
    IF s = <<>> THEN <<cur>>
    ELSE IF StartsWith(s, sep)
         THEN <<cur>> \o SplitOn(SubSeq(s, Len(sep) + 1, Len(s)), sep, <<>>)
         ELSE SplitOn(Tail(s), sep, Append(cur, Head(s)))

\* sep in s
Has(s, sep) == \E i \in 1 .. Len(s) : StartsWith(SubSeq(s, i, Len(s)), sep)

RECURSIVE LStrip(_)
LStrip(s) ==
    IF s # <<>> /\ IsSpace(Head(s)) THEN LStrip(Tail(s)) ELSE s

RECURSIVE RStrip(_)
RStrip(s) ==
    IF s # <<>> /\ IsSpace(s[Len(s)])
    THEN RStrip(SubSeq(s, 1, Len(s) - 1)) ELSE s

\* s.strip()
Strip(s) == RStrip(LStrip(s))

StripAll(pieces) == [i \in 1 .. Len(pieces) |-> Strip(pieces[i])]

\* Title(de=..., en=...): both fields are declared str, so None fails the
\* type validation that runs before the field validators
TitleModel(de, en) ==
    IF de = None \/ en = None THEN ValidationError
    ELSE LET d == IF de = <<>> THEN KeinTitel ELSE de
         IN [de |-> d, en |-> IF en = <<>> THEN d ELSE en]

\* Description(de=..., en=...) without the default of the en validator
DescriptionModelAsGiven(de, en) ==
    IF de = None \/ en = None THEN ValidationError
    ELSE [de |-> de, en |-> en]

\* Description(de=..., en=...)
DescriptionModel(de, en) ==
    IF de = None \/ en = None THEN ValidationError
    ELSE LET d == IF de = <<>> THEN <<>> ELSE de
         IN [de |-> d, en |-> IF en = <<>> THEN d ELSE en]

TitleFromStr(str_inp) ==
    LET titles == StripAll(SplitOn(str_inp, <<"|">>, <<>>))
    IN TitleModel(IF Len(titles) > 0 THEN titles[1] ELSE None,
                  IF Len(titles) > 1 THEN titles[2] ELSE None)

RawDescriptionCleaned(str_inp) == ReplaceNbsp(StripTags(str_inp))

DescriptionFromStr(str_inp) ==
    LET descriptions == StripAll(SplitRuns(RawDescriptionCleaned(str_inp),
                                           <<>>))
    IN DescriptionModel(
           IF Len(descriptions) > 0 THEN descriptions[1] ELSE None,
           IF Len(descriptions) > 1 THEN descriptions[2] ELSE None)

\* event_description of generate_overview, t = 0 German, t = 1 English
EventDescription(description, t) ==
    LET d == StripTagsButBreaks(description)
        dashes == Repeat("-", 4)
        long == Repeat("_", UnderscoresLong)
        short == Repeat("_", UnderscoresShort)
    IN IF Has(d, dashes) THEN SplitOn(d, dashes, <<>>)[t + 1]
       ELSE IF Has(d, long) THEN SplitOn(d, long, <<>>)[t + 1]
       ELSE IF Has(d, short) THEN SplitOn(d, short, <<>>)[t + 1]
       ELSE d

---------------------------------------------------------------------------
(* Dates *)

Weekday(d) == d % WeekLen

StartOfWeek(d) == d - Weekday(d)

EndOfWeek(sow) == sow + DaysToSunday

Dates(sow) == sow .. (sow + (WeekLen - 1))

InWeek(d, sow) == sow <= d /\ d <= EndOfWeek(sow)

\* datetime comparison of two timestamps
TimeLess(a, b) == a.day < b.day \/ (a.day = b.day /\ a.tod < b.tod)

---------------------------------------------------------------------------
(* Recurrence rules: rrulestr(rrule, dtstart=event_start).between(...) *)

NoRule == [freq |-> "NONE", count |-> 0]

\* a rule text that icalendar hands through and rrulestr rejects
BadRule == [freq |-> "BAD", count |-> 0]

\* rrulestr(rrule, dtstart=event_start, ignoretz=True) raises ValueError
RrulestrRaises(rule) == rule = BadRule

FreqDays(freq) == IF freq = "DAILY" THEN 1 ELSE WeekLen

\* every date the rule generates, the anchor first
RuleDates(rule, anchor) ==
    {anchor + k * FreqDays(rule.freq) : k \in 0 .. (rule.count - 1)}

RECURSIVE Ascending(_)
\* a finite set of days as the ascending list rule.between returns
Ascending(S) ==
    IF S = {} THEN <<>>
    ELSE LET m == CHOOSE x \in S : \A y \in S : x <= y
         IN <<m>> \o Ascending(S \ {m})

Between(rule, anchor, sow) ==
    Ascending({d \in RuleDates(rule, anchor) : InWeek(d, sow)})

---------------------------------------------------------------------------
(* generate_overview: the walk of the feed *)

\* datetime.datetime.combine(date, time)
Combine(date, time) == [day |-> date, tod |-> time.tod]

\* the test that admits an entry as it stands
InThisWeek(event, sow) ==
    \/ InWeek(event.DTSTART.day, sow)
    \/ InWeek(event.DTEND.day, sow)

\* MovedTo with the start taken from the end's time of day
MovedToEndTime(event, date) ==
    [event EXCEPT !.DTSTART = Combine(date, event.DTEND),
                  !.DTEND = Combine(date, event.DTEND)]

\* the entry moved to one generated date
MovedTo(event, date) ==
    [event EXCEPT !.DTSTART = Combine(date, event.DTSTART),
                  !.DTEND = Combine(date, event.DTEND)]

\* recurring_events of one entry, every copy owning its properties
RecurringEvents(event, sow) ==
    LET dates == Between(event.RRULE, event.DTSTART.day, sow)
    IN [i \in 1 .. Len(dates) |-> MovedTo(event, dates[i])]

\* event.copy() copies the component, not the DTSTART / DTEND property
\* objects: when these are shared, every assignment to .dt is seen through
\* the entry and all of its copies, which end on the last generated date.
SharedProps(event, sow, listed) ==
    LET dates == Between(event.RRULE, event.DTSTART.day, sow)
    IN IF dates = <<>> THEN listed
       ELSE [i \in 1 .. Len(listed) |-> MovedTo(event, dates[Len(dates)])]

\* what one iteration of the walk appends to events_of_week
WalkEvent(event, sow, shares) ==
    LET regular == IF InThisWeek(event, sow) THEN <<event>> ELSE <<>>
        recurring == IF event.RRULE # NoRule
                     THEN RecurringEvents(event, sow) ELSE <<>>
    IN IF shares /\ event.RRULE # NoRule
       THEN SharedProps(event, sow, regular \o recurring)
       ELSE regular \o recurring

---------------------------------------------------------------------------
(* generate_overview: filtering duplicate events *)

\* index of the first retained event with this UID
ExistingIndex(filtered, uid) ==
    CHOOSE i \in 1 .. Len(filtered) :
        /\ filtered[i].UID = uid
        /\ \A j \in 1 .. (i - 1) : filtered[j].UID # uid

\* FilterStep that never replaces the retained event
FilterStepKeepFirst(acc, event) ==
    IF event.UID \notin acc.uids
    THEN [events |-> Append(acc.events, event),
          uids |-> acc.uids \cup {event.UID}]
    ELSE acc

\* one iteration of the loop over events_of_week
FilterStep(acc, event) ==
    IF event.UID \notin acc.uids
    THEN [events |-> Append(acc.events, event),
          uids |-> acc.uids \cup {event.UID}]
    ELSE LET i == ExistingIndex(acc.events, event.UID)
         IN IF event.LM > acc.events[i].LM
            THEN [acc EXCEPT !.events[i] = event]
            ELSE acc

RECURSIVE FilterLoop(_, _)
FilterLoop(acc, events) ==
    IF events = <<>> THEN acc
    ELSE FilterLoop(FilterStep(acc, Head(events)), Tail(events))

FilterDuplicateEvents(events) ==
    FilterLoop([events |-> <<>>, uids |-> {}], events).events

---------------------------------------------------------------------------
(* generate_overview: grouping by date *)

Shown(event) == event.SUMMARY # <<>>

\* events_by_date[event_start] of a date that is no key raises KeyError
GroupRaises(events, sow) ==
    \E i \in 1 .. Len(events) :
        Shown(events[i]) /\ events[i].DTSTART.day \notin Dates(sow)

IsOn(event, date) == Shown(event) /\ event.DTSTART.day = date

GroupEvents(events, sow) ==
    [date \in Dates(sow) |->
        SelectSeq(events, LAMBDA e : IsOn(e, date))]

---------------------------------------------------------------------------
(* generate_overview: order inside one date column *)

\* where sorted() puts an element behind the ones not later than it
InsertByStart(sorted, ev) ==
    LET k == Cardinality({i \in 1 .. Len(sorted) :
                            ~ TimeLess(ev.DTSTART, sorted[i].DTSTART)})
    IN SubSeq(sorted, 1, k) \o <<ev>> \o SubSeq(sorted, k + 1, Len(sorted))

\* SortedByStart that leaves the list as it came
Unsorted(events) == events

RECURSIVE SortedByStart(_)
\* sorted(events, key=DTSTART), a stable sort
SortedByStart(events) ==
    IF events = <<>> THEN <<>>
    ELSE InsertByStart(SortedByStart(SubSeq(events, 1, Len(events) - 1)),
                       events[Len(events)])

Contains(list, ev) == \E j \in 1 .. Len(list) : list[j] = ev

RECURSIVE TiePass(_, _, _)
\* the loop that builds sorted_events, from position index on
TiePass(events, index, sorted_events) ==
    IF index > Len(events) THEN sorted_events
    ELSE LET ev == events[index]
         IN IF Contains(sorted_events, ev)
            THEN TiePass(events, index + 1, sorted_events)
            ELSE IF /\ index # Len(events)
                    /\ ev.DTSTART = events[index + 1].DTSTART
                    /\ StrGreater(ev.SUMMARY, events[index + 1].SUMMARY)
                 THEN TiePass(events, index + 1,
                              sorted_events \o <<events[index + 1], ev>>)
                 ELSE TiePass(events, index + 1, Append(sorted_events, ev))

SortedEvents(events) == TiePass(SortedByStart(events), 1, <<>>)

SortDateColumns(by_date, sow) ==
    [date \in Dates(sow) |-> SortedEvents(by_date[date])]

RECURSIVE Columns(_, _, _)
\* the date columns from date on, one after the other
Columns(by_date, date, last) ==
    IF date > last THEN <<>>
    ELSE by_date[date] \o Columns(by_date, date + 1, last)

\* every shown event of the week, in column order
Overview(by_date, sow) == Columns(by_date, sow, sow + (WeekLen - 1))

---------------------------------------------------------------------------
(* generate_overview: rows, table style and document elements *)

RECURSIVE MaxEventsFrom(_, _, _, _)
\* the loop "for date in dates" that finds the highest amount of events
MaxEventsFrom(by_date, date, last, maxevents) ==
    IF date > last THEN maxevents
    ELSE MaxEventsFrom(by_date, date + 1, last,
                       IF Len(by_date[date]) > maxevents
                       THEN Len(by_date[date]) ELSE maxevents)

MaxEvents(by_date, sow) ==
    MaxEventsFrom(by_date, sow, sow + (WeekLen - 1), 0)

\* rowheights = 470 / rowamount, evaluated for every cell of data, the
\* cells of the header row first
StyleRaises(rows) == rows = 0

TableElements == <<"title", "table">>

NoEventsElements == <<"title", "spacer", "msg">>

---------------------------------------------------------------------------
(* The command line program: EventSpan, RenderableEventSpan, confirm_table *)

Language == {"de", "en"}

AttributeError == [error |-> "AttributeError"]

RECURSIVE InsertSpanEvent(_, _)
\* ev behind every event of the sorted list that does not start later
InsertSpanEvent(sorted, ev) ==
    IF sorted = <<>> THEN <<ev>>
    ELSE IF TimeLess(ev.start, Head(sorted).start) THEN <<ev>> \o sorted
    ELSE <<Head(sorted)>> \o InsertSpanEvent(Tail(sorted), ev)

RECURSIVE SortedSpanEvents(_)
\* list(sorted(events, key=lambda e: e.start)), a stable sort
SortedSpanEvents(events) ==
    IF events = <<>> THEN <<>>
    ELSE InsertSpanEvent(SortedSpanEvents(SubSeq(events, 1, Len(events) - 1)),
                         events[Len(events)])

\* EventSpan(start=..., end=..., events=...)
EventSpanModel(start, end, events) ==
    [start |-> start, end |-> end, events |-> SortedSpanEvents(events)]

\* RenderableEventSpan(start=..., end=..., lang=..., events=...)
RenderableEventSpanModel(start, end, l, events) ==
    [start |-> start, end |-> end, lang |-> l,
     events |-> SortedSpanEvents(events)]

\* RenderableEvent(title=event.title.model_dump()[lang], ...)
RenderableEventOf(event, l) ==
    [title |-> event.title[l], description |-> event.description[l],
     start |-> event.start, end |-> event.end, place |-> event.place]

\* a Python list object: its items, and no attribute beyond them
PyList(items) == [items |-> items]

\* obj.name
GetAttr(obj, name) ==
    IF name \in DOMAIN obj THEN obj[name] ELSE AttributeError

\* from_eventspan: the list of RenderableEvents is bound to the name of
\* the parameter, events, and the constructor call then reads events.start
\* and events.end from what that name refers to
FromEventspan(events, l) ==
    LET rebound == PyList([i \in 1 .. Len(events.events) |->
                              RenderableEventOf(events.events[i], l)])
        start == GetAttr(rebound, "start")
        end == GetAttr(rebound, "end")
    IN IF start = AttributeError \/ end = AttributeError
       THEN AttributeError
       ELSE RenderableEventSpanModel(start, end, l, rebound.items)

\* range(start, end)
PyRange(start, end) == start .. (end - 1)

RECURSIVE FilterIndices(_)
\* filter_indices of one entry; a choice is "start:end", or "start" alone
FilterIndices(choices) ==
    IF choices = <<>> THEN {}
    ELSE (IF Head(choices).colon
          THEN PyRange(Head(choices).start, Head(choices).end)
          ELSE {Head(choices).start}) \cup FilterIndices(Tail(choices))

RECURSIVE KeptFrom(_, _, _)
\* [events[i] for i in range(len(events)) if i not in filter_indices]
KeptFrom(events, i, filter_indices) ==
    IF i >= Len(events) THEN <<>>
    ELSE (IF i \notin filter_indices THEN <<events[i + 1]>> ELSE <<>>)
             \o KeptFrom(events, i + 1, filter_indices)

NoCli ==
    /\ event_span = <<>>
    /\ lang = "de"
    /\ renderable_events = <<>>
    /\ cli_pc = "off"
    /\ filter_choice = <<>>
    /\ new_events = <<>>
    /\ user_not_yet_confirmed = TRUE
    /\ returned = <<>>

\* pdf(): one round of "for lang_opt in lang"
Project ==
    /\ cli_pc = "span"
    /\ \E lang_opt \in Language :
           /\ lang' = lang_opt
           /\ renderable_events' = FromEventspan(event_span, lang_opt)
    /\ cli_pc' = IF renderable_events' = AttributeError THEN "failed"
                 ELSE "prompt"
    /\ UNCHANGED <<event_span, filter_choice, new_events,
                   user_not_yet_confirmed, returned>>
    /\ UNCHANGED overview_vars
    /\ UNCHANGED split_vars

NextProject == Project

MaxShown == 6       \* rows of the table confirm_table prints

Singles == [colon : {FALSE}, start : 0 .. MaxShown, end : {0}]

Ranges ==
    {c \in [colon : {TRUE}, start : 0 .. MaxShown, end : 0 .. MaxShown] :
        c.start <= c.end}

\* what the user types: nothing, one choice, or a range and a single row
FilterChoices ==
    {<<>>} \cup {<<c>> : c \in Singles \cup Ranges}
           \cup {<<c, d>> : c \in Ranges, d \in Singles}

\* confirm_table: the user answers Prompt.ask
Prompt ==
    /\ cli_pc = "prompt"
    /\ \E choice \in FilterChoices :
           /\ filter_choice' = choice
           /\ IF choice = <<>>
              THEN /\ returned' = renderable_events
                   /\ cli_pc' = "returned"
                   /\ UNCHANGED new_events
              ELSE /\ new_events' =
                          RenderableEventSpanModel(
                              renderable_events.start, renderable_events.end,
                              renderable_events.lang,
                              KeptFrom(renderable_events.events, 0,
                                       FilterIndices(choice)))
                   /\ cli_pc' = "confirm"
                   /\ UNCHANGED returned
    /\ UNCHANGED <<event_span, lang, renderable_events,
                   user_not_yet_confirmed>>
    /\ UNCHANGED overview_vars
    /\ UNCHANGED split_vars

\* confirm_table: the user answers Confirm.ask; the loop goes on while the
\* answer is true
Confirm ==
    /\ cli_pc = "confirm"
    /\ \E answer \in BOOLEAN :
           /\ user_not_yet_confirmed' = answer
           /\ IF answer
              THEN /\ cli_pc' = "prompt"
                   /\ UNCHANGED returned
              ELSE /\ returned' = new_events
                   /\ cli_pc' = "returned"
    /\ UNCHANGED <<event_span, lang, renderable_events, filter_choice,
                   new_events>>
    /\ UNCHANGED overview_vars
    /\ UNCHANGED split_vars

NextConfirm ==
    \/ Prompt
    \/ Confirm

---------------------------------------------------------------------------
(* generate_overview as a state machine *)

NoColumns == <<>>

\* days the user picks in the calendar widget
SelectableDates == {Today - WeekLen, Today + 1, Today + WeekLen}

StartOverview ==
    /\ pc = "idle"
    /\ start_of_week' = StartOfWeek(current_date)
    /\ events_of_week' = <<>>
    /\ walked' = 0
    /\ pc' = "walk"
    /\ UNCHANGED <<calendar, shallow, current_date, filtered_events,
                   events_by_date, sorted_by_date, err, date_label>>
    /\ rowamount' = 0
    /\ UNCHANGED <<events_exist, elements>>
    /\ UNCHANGED split_vars
    /\ UNCHANGED cli_vars

WalkEntry ==
    /\ pc = "walk"
    /\ walked < Len(calendar)
    /\ LET event == calendar[walked + 1]
       IN IF RrulestrRaises(event.RRULE)
          THEN /\ events_of_week' = events_of_week \o
                      (IF InThisWeek(event, start_of_week)
                       THEN <<event>> ELSE <<>>)
               /\ err' = "ValueError"
               /\ pc' = "failed"
               /\ UNCHANGED walked
          ELSE /\ events_of_week' = events_of_week \o
                      WalkEvent(event, start_of_week, shallow)
               /\ walked' = walked + 1
               /\ UNCHANGED <<pc, err>>
    /\ UNCHANGED <<calendar, shallow, current_date, start_of_week,
                   filtered_events, events_by_date, sorted_by_date,
                   date_label>>
    /\ UNCHANGED render_vars
    /\ UNCHANGED split_vars
    /\ UNCHANGED cli_vars

FilterDuplicates ==
    /\ pc = "walk"
    /\ walked = Len(calendar)
    /\ filtered_events' = FilterDuplicateEvents(events_of_week)
    /\ pc' = "group"
    /\ UNCHANGED <<calendar, shallow, current_date, start_of_week, walked,
                   events_of_week, events_by_date, sorted_by_date, err,
                   date_label>>
    /\ UNCHANGED render_vars
    /\ UNCHANGED split_vars
    /\ UNCHANGED cli_vars

GroupByDate ==
    /\ pc = "group"
    /\ IF GroupRaises(filtered_events, start_of_week)
       THEN /\ err' = "KeyError"
            /\ pc' = "failed"
            /\ UNCHANGED <<events_by_date, rowamount, events_exist>>
       ELSE /\ events_by_date' = GroupEvents(filtered_events, start_of_week)
            /\ rowamount' = MaxEvents(events_by_date', start_of_week)
            /\ events_exist' = ~ (rowamount' < 1)
            /\ pc' = "sort"
            /\ UNCHANGED err
    /\ UNCHANGED <<calendar, shallow, current_date, start_of_week, walked,
                   events_of_week, filtered_events, sorted_by_date,
                   elements, date_label>>
    /\ UNCHANGED split_vars
    /\ UNCHANGED cli_vars

SortColumns ==
    /\ pc = "sort"
    /\ sorted_by_date' = SortDateColumns(events_by_date, start_of_week)
    /\ pc' = "done"
    /\ UNCHANGED <<calendar, shallow, current_date, start_of_week, walked,
                   events_of_week, filtered_events, events_by_date, err,
                   date_label>>
    /\ UNCHANGED render_vars
    /\ UNCHANGED split_vars
    /\ UNCHANGED cli_vars

\* the table style loop over the header row and the event rows, then the
\* choice between the table and the message
RenderTable ==
    /\ pc = "done"
    /\ IF StyleRaises(rowamount)
       THEN /\ err' = "ZeroDivisionError"
            /\ pc' = "failed"
            /\ UNCHANGED elements
       ELSE /\ elements' = IF events_exist THEN TableElements
                           ELSE NoEventsElements
            /\ pc' = "built"
            /\ UNCHANGED err
    /\ UNCHANGED <<calendar, shallow, current_date, start_of_week, walked,
                   events_of_week, filtered_events, events_by_date,
                   sorted_by_date, rowamount, events_exist, date_label>>
    /\ UNCHANGED split_vars
    /\ UNCHANGED cli_vars

Next ==
    \/ StartOverview
    \/ WalkEntry
    \/ FilterDuplicates
    \/ GroupByDate
    \/ SortColumns
    \/ RenderTable

\* the calendar widget reports a selected day
get_selected_date ==
    /\ pc = "idle"
    /\ \E selected_date \in SelectableDates :
           \* current_date = selected_date binds a local of the callback
           /\ date_label' = selected_date
           /\ UNCHANGED current_date
    /\ UNCHANGED <<calendar, shallow, start_of_week, pc, walked,
                   events_of_week, filtered_events, events_by_date,
                   sorted_by_date, err>>
    /\ UNCHANGED render_vars
    /\ UNCHANGED split_vars
    /\ UNCHANGED cli_vars

NextGui ==
    \/ get_selected_date
    \/ StartOverview
    \/ WalkEntry
    \/ FilterDuplicates
    \/ GroupByDate
    \/ SortColumns
    \/ RenderTable

---------------------------------------------------------------------------
(* Feeds *)

Tods == 1 .. MaxTod

RECURSIVE ListsUpTo(_, _)
\* the lists of at most n elements of S
ListsUpTo(S, n) ==
    IF n = 0 THEN {<<>>}
    ELSE LET shorter == ListsUpTo(S, n - 1)
         IN shorter \cup {Append(l, x) : l \in shorter, x \in S}

ThisMonday == StartOfWeek(Today)

\* days an entry of a dated feed starts on: a week before, the day before,
\* the first and last day of the week, the day after
StartDays ==
    {ThisMonday - WeekLen, ThisMonday - 1, ThisMonday,
     EndOfWeek(ThisMonday), EndOfWeek(ThisMonday) + 1}

\* days an entry lasts: within one day, overnight, longer than the week
SpanDays == {0, 1, WeekLen + 1}

Rules ==
    {NoRule} \cup [freq : {"DAILY", "WEEKLY"}, count : {MaxCount}]

\* one-off, multi-day and recurring entries of one series
DatedEntries ==
    {e \in [DTSTART : [day : StartDays, tod : Tods],
            DTEND : [day : ThisMonday - WeekLen ..
                           EndOfWeek(ThisMonday) + WeekLen + 2, tod : Tods],
            SUMMARY : {<<"a">>}, DESCRIPTION : {<<"a">>},
            LOCATION : {"room"}, UID : {"u1"}, LM : {1}, RRULE : Rules] :
        /\ e.DTEND.day - e.DTSTART.day \in SpanDays
        /\ ~ TimeLess(e.DTEND, e.DTSTART)
        /\ e.RRULE # NoRule => e.DTEND.day - e.DTSTART.day <= 1}

\* title and description that the feed carries under each UID
SummaryOf(uid) ==
    CASE uid = "u1" -> <<"c">>
      [] uid = "u2" -> <<"b">>
      [] uid = "u3" -> <<"a">>
      [] uid = "u4" -> <<>>

DescriptionOf(uid) ==
    CASE uid = "u1" -> <<"a">>
      [] uid = "u2" -> <<"b">>
      [] uid = "u3" -> <<"c">>
      [] uid = "u4" -> <<"a">>

\* one-off entries of one day, early or late, delivered in several versions
SameDayEntries ==
    {e \in [DTSTART : [day : {Today}, tod : {1, MaxTod}],
            DTEND : [day : {Today}, tod : {MaxTod}],
            SUMMARY : {<<>>, <<"a">>, <<"b">>, <<"c">>},
            DESCRIPTION : {<<"a">>, <<"b">>, <<"c">>},
            LOCATION : {"room"}, UID : {"u1", "u2", "u3", "u4"},
            LM : 1 .. MaxLM, RRULE : {NoRule}] :
        /\ e.SUMMARY = SummaryOf(e.UID)
        /\ e.DESCRIPTION = DescriptionOf(e.UID)}

NoSplit ==
    /\ text = <<>>
    /\ parts = <<>>
    /\ split_op = "none"
    /\ split_out = <<>>
    /\ NoCli

OverviewIdle ==
    /\ current_date = Today
    /\ start_of_week = StartOfWeek(Today)
    /\ pc = "idle"
    /\ walked = 0
    /\ events_of_week = <<>>
    /\ filtered_events = <<>>
    /\ events_by_date = NoColumns
    /\ sorted_by_date = NoColumns
    /\ err = "none"
    /\ rowamount = 0
    /\ events_exist = FALSE
    /\ elements = <<>>
    /\ date_label = current_date

\* a feed of dated and recurring entries
Init ==
    /\ calendar \in ListsUpTo(DatedEntries, MaxFeed)
    /\ shallow \in BOOLEAN
    /\ OverviewIdle
    /\ NoSplit

Spec == Init /\ [][Next]_vars

\* a feed of same-day entries in several versions
InitVersions ==
    /\ calendar \in ListsUpTo(SameDayEntries, MaxDupFeed)
    /\ shallow = TRUE
    /\ OverviewIdle
    /\ NoSplit

SpecVersions == InitVersions /\ [][Next]_vars

\* the dated feed, with the user picking days before generating
SpecGui == Init /\ [][NextGui]_vars

MaxRuleFeed == 2    \* entries of a feed with rejected recurrence rules

\* one-off and daily entries of two series early in the week, some of them
\* with a rule that rrulestr rejects
RuleEntries ==
    [DTSTART : [day : {ThisMonday, ThisMonday + 1}, tod : {1}],
     DTEND : [day : {ThisMonday + 1}, tod : {MaxTod}],
     SUMMARY : {<<"a">>}, DESCRIPTION : {<<"a">>},
     LOCATION : {"room"}, UID : {"u1", "u2"}, LM : {1},
     RRULE : {NoRule, BadRule, [freq |-> "DAILY", count |-> MaxCount]}]

InitMalformed ==
    /\ calendar \in ListsUpTo(RuleEntries, MaxRuleFeed)
    /\ shallow \in BOOLEAN
    /\ OverviewIdle
    /\ NoSplit

SpecMalformed == InitMalformed /\ [][Next]_vars

MaxSpan == 2        \* events of an EventSpan

\* titles and descriptions as the validators leave them
BilingualTexts ==
    {[de |-> <<"a">>, en |-> <<"b">>], [de |-> <<"a">>, en |-> <<"a">>]}

MultiLangEvents ==
    [start : [day : {ThisMonday, Today}, tod : {1}],
     end : [day : {Today}, tod : {MaxTod}],
     title : BilingualTexts,
     description : BilingualTexts \cup {[de |-> <<>>, en |-> <<>>]},
     place : {"room"}]

\* the spans of the week of Today
EventSpans ==
    {EventSpanModel(ThisMonday, ThisMonday + (WeekLen - 1), events) :
        events \in ListsUpTo(MultiLangEvents, MaxSpan)}

\* pdf() has built the EventSpan and starts on the languages
InitProject ==
    /\ event_span \in EventSpans
    /\ lang = "de"
    /\ renderable_events = <<>>
    /\ cli_pc = "span"
    /\ filter_choice = <<>>
    /\ new_events = <<>>
    /\ user_not_yet_confirmed = TRUE
    /\ returned = <<>>
    /\ calendar = <<>>
    /\ shallow = TRUE
    /\ OverviewIdle
    /\ text = <<>>
    /\ parts = <<>>
    /\ split_op = "none"
    /\ split_out = <<>>

SpecProject == InitProject /\ [][NextProject]_vars

\* the event printed in row idx
ShownEvent(idx) ==
    [title |-> <<"a">>, description |-> <<>>,
     start |-> [day |-> ThisMonday + idx, tod |-> 1],
     end |-> [day |-> ThisMonday + idx, tod |-> MaxTod], place |-> "room"]

ShownSpans ==
    {RenderableEventSpanModel(ThisMonday, ThisMonday + (WeekLen - 1), l,
                              [i \in 1 .. n |-> ShownEvent(i - 1)]) :
        l \in Language, n \in 0 .. MaxShown}

\* confirm_table has printed the table and enters the loop
InitConfirm ==
    /\ event_span = <<>>
    /\ renderable_events \in ShownSpans
    /\ lang = renderable_events.lang
    /\ cli_pc = "prompt"
    /\ filter_choice = <<>>
    /\ new_events = <<>>
    /\ user_not_yet_confirmed = TRUE
    /\ returned = <<>>
    /\ calendar = <<>>
    /\ shallow = TRUE
    /\ OverviewIdle
    /\ text = <<>>
    /\ parts = <<>>
    /\ split_op = "none"
    /\ split_out = <<>>

SpecConfirm == InitConfirm /\ [][NextConfirm]_vars

---------------------------------------------------------------------------
(* Properties of the walk (Spec) *)

\* the state right after the walk has handled the first entry alone
FirstWalked == walked = 1

\* inclusive overlap of [DTSTART, DTEND] with the week
Overlaps(event, sow) ==
    event.DTSTART.day <= EndOfWeek(sow) /\ event.DTEND.day >= sow

\* how many events of the list start on day d
StartingOn(events, d) ==
    Cardinality({i \in 1 .. Len(events) : events[i].DTSTART.day = d})

\* the dates the entry's rule generates inside the week
DatesInWeek(event, sow) == Between(event.RRULE, event.DTSTART.day, sow)

\* C1: an entry without recurrence rule yields exactly one occurrence when
\* its [start, end] overlaps the week inclusively (also when it starts before
\* and ends after the week), and none otherwise.
C1_NonRecurringOverlap ==
    (FirstWalked /\ calendar[1].RRULE = NoRule) =>
        Len(events_of_week) =
            IF Overlaps(calendar[1], start_of_week) THEN 1 ELSE 0

\* C2: an entry with a recurrence rule yields exactly one occurrence per
\* rule-generated date inside the week and nothing else; the entry itself
\* is not emitted a second time next to its instances.
C2_OnePerGeneratedDate ==
    (FirstWalked /\ calendar[1].RRULE # NoRule) =>
        LET dates == DatesInWeek(calendar[1], start_of_week)
        IN /\ Len(events_of_week) = Len(dates)
           /\ \A k \in 1 .. Len(dates) :
                  StartingOn(events_of_week, dates[k]) = 1

\* the occurrences the rule expansion appended for the first entry: the
\* ones behind the entry itself, when that was admitted as it stands
Expanded ==
    LET skip == IF InThisWeek(calendar[1], start_of_week) THEN 1 ELSE 0
    IN SubSeq(events_of_week, skip + 1, Len(events_of_week))

\* C3: every occurrence made by rule expansion starts on a day of the week,
\* at the entry's own start time of day, and carries the entry's title,
\* description, place, identity and modification stamp unchanged.
C3_ExpandedInsideWeek ==
    (FirstWalked /\ calendar[1].RRULE # NoRule) =>
        \A k \in 1 .. Len(Expanded) :
            LET o == Expanded[k]
                e == calendar[1]
            IN /\ InWeek(o.DTSTART.day, start_of_week)
               /\ o.DTSTART.tod = e.DTSTART.tod
               /\ o.SUMMARY = e.SUMMARY
               /\ o.DESCRIPTION = e.DESCRIPTION
               /\ o.LOCATION = e.LOCATION
               /\ o.UID = e.UID
               /\ o.LM = e.LM

\* an instance of a series anchored outside the week was produced, at a
\* time of day that differs from the entry's end time of day
C3_Witness ==
    /\ FirstWalked
    /\ calendar[1].RRULE # NoRule
    /\ ~ InWeek(calendar[1].DTSTART.day, start_of_week)
    /\ calendar[1].DTSTART.tod # calendar[1].DTEND.tod
    /\ Len(Expanded) >= 1

---------------------------------------------------------------------------
(* Properties of the duplicate filter and the ordering *)

Filtered ==
    pc \in {"group", "sort", "done", "built", "failed"} /\ err # "ValueError"

\* how many events of the list carry the UID
WithUid(events, uid) ==
    Cardinality({i \in 1 .. Len(events) : events[i].UID = uid})

\* C4: when two occurrences of the filter's input share a UID and have
\* LAST-MODIFIED T1 < T2, the output holds the one with T2 and not the one
\* with T1, whichever comes first in the input.
C4_FreshestSurvives ==
    Filtered =>
        \A i, j \in 1 .. Len(events_of_week) :
            (/\ events_of_week[i].UID = events_of_week[j].UID
             /\ events_of_week[i].LM < events_of_week[j].LM
             /\ WithUid(events_of_week, events_of_week[i].UID) = 2) =>
                /\ Contains(filtered_events, events_of_week[j])
                /\ ~ Contains(filtered_events, events_of_week[i])

\* the older delivery came first and was replaced by the newer one
C4_Witness ==
    /\ Filtered
    /\ \E i, j \in 1 .. Len(events_of_week) :
           /\ i < j
           /\ events_of_week[i].UID = events_of_week[j].UID
           /\ events_of_week[i].LM < events_of_week[j].LM
           /\ WithUid(events_of_week, events_of_week[i].UID) = 2
           /\ Contains(filtered_events, events_of_week[j])

\* C5: occurrences of the filter's input that share a UID and all carry the
\* same LAST-MODIFIED (the instances of one series) are all kept.
C5_SeriesKept ==
    Filtered =>
        \A i \in 1 .. Len(events_of_week) :
            LET uid == events_of_week[i].UID
            IN (\A j \in 1 .. Len(events_of_week) :
                    events_of_week[j].UID = uid =>
                        events_of_week[j].LM = events_of_week[i].LM) =>
                WithUid(filtered_events, uid) = WithUid(events_of_week, uid)

\* filter, drop of untitled events, grouping and ordering of a list whose
\* events all start inside the week
Canonicalize(events, sow) ==
    Overview(SortDateColumns(
                 GroupEvents(FilterDuplicateEvents(events), sow), sow), sow)

\* C6: canonicalizing the canonical list again gives the same list, with the
\* same elements in the same order.
C6_Idempotent ==
    pc = "done" =>
        Canonicalize(Overview(sorted_by_date, start_of_week), start_of_week)
            = Overview(sorted_by_date, start_of_week)

\* the occurrences shown for the week, in their final order
ShownEvents == Overview(sorted_by_date, start_of_week)

\* adjacent occurrences of the final order satisfy R
AdjacentShown(R(_, _)) ==
    \A k \in 1 .. (Len(ShownEvents) - 1) :
        R(ShownEvents[k], ShownEvents[k + 1])

ByStartThenDescription(a, b) ==
    \/ TimeLess(a.DTSTART, b.DTSTART)
    \/ /\ a.DTSTART = b.DTSTART
       /\ ~ StrGreater(a.DESCRIPTION, b.DESCRIPTION)

ByStart(a, b) == ~ TimeLess(b.DTSTART, a.DTSTART)

C8_StartsInsideWeek ==
    Filtered =>
        \A i \in 1 .. Len(filtered_events) :
            InWeek(filtered_events[i].DTSTART.day, start_of_week)

---------------------------------------------------------------------------
(* Properties of the walk under failures, of the table and of the window *)

WellFormed(event) == ~ RrulestrRaises(event.RRULE)

RECURSIVE WalkFeed(_, _, _)
\* what the walk appends for a whole feed
WalkFeed(feed, sow, shares) ==
    IF feed = <<>> THEN <<>>
    ELSE WalkEvent(Head(feed), sow, shares) \o WalkFeed(Tail(feed), sow, shares)

\* C12: an entry whose recurrence rule is rejected contributes nothing and
\* the error stays inside the walk: generate_overview does not end with it,
\* and once the walk is through, the week list is the one of the same feed
\* without the rejected entries.
C12_MalformedSkipped ==
    /\ err # "ValueError"
    /\ (pc # "idle" /\ walked = Len(calendar)) =>
           events_of_week =
               WalkFeed(SelectSeq(calendar, WellFormed), start_of_week,
                        shallow)

\* the style loop has been entered
Styled == pc = "built" \/ (pc = "failed" /\ err = "ZeroDivisionError")

\* C13: a week without any surviving occurrence is rendered without an
\* exception and the document gets the "no events" message, not a table.
C13_EmptyWeekRenders ==
    (Styled /\ Overview(events_by_date, start_of_week) = <<>>) =>
        (pc = "built" /\ elements = NoEventsElements)

\* C15: the week generate_overview works on starts on the Monday of the
\* week of the date the user selected last (the start day when nothing was
\* selected) and ends on the Sunday after it.
C15_WeekOfSelectedDate ==
    pc # "idle" =>
        /\ Weekday(start_of_week) = 0
        /\ start_of_week <= date_label
        /\ date_label <= start_of_week + 6

\* C17: every occurrence in the week list ends no earlier than it starts,
\* and every occurrence made by rule expansion lasts as long as its entry,
\* overnight and multi-day entries included.
C17_DurationKept ==
    FirstWalked =>
        /\ \A i \in 1 .. Len(events_of_week) :
               ~ TimeLess(events_of_week[i].DTEND, events_of_week[i].DTSTART)
        /\ calendar[1].RRULE # NoRule =>
               \A k \in 1 .. Len(Expanded) :
                   /\ Expanded[k].DTEND.day - Expanded[k].DTSTART.day =
                          calendar[1].DTEND.day - calendar[1].DTSTART.day
                   /\ Expanded[k].DTEND.tod - Expanded[k].DTSTART.tod =
                          calendar[1].DTEND.tod - calendar[1].DTSTART.tod

\* the orders in which the occurrences of a list can arrive
Arrivals(events) ==
    {[i \in 1 .. Len(events) |-> events[f[i]]] :
        f \in Permutations(1 .. Len(events))}

\* C18: the final sequence does not depend on the order in which the
\* occurrences arrived: filtering and sorting any permutation of the week
\* list gives the sequence that is shown.
C18_ArrivalOrderIrrelevant ==
    pc = "done" =>
        \A arrival \in Arrivals(events_of_week) :
            Canonicalize(arrival, start_of_week) = ShownEvents

\* what the projection of the span to language lang is to return
Projection ==
    [start |-> event_span.start, end |-> event_span.end, lang |-> lang,
     events |-> [i \in 1 .. Len(event_span.events) |->
                    [title |-> event_span.events[i].title[lang],
                     description |-> event_span.events[i].description[lang],
                     start |-> event_span.events[i].start,
                     end |-> event_span.events[i].end,
                     place |-> event_span.events[i].place]]]

\* C14: from_eventspan never fails: for every span and either language it
\* returns one record per event in the span's order, with title and
\* description of that language, start, end and place unchanged, and the
\* span's start and end.
C14_ProjectionTotal ==
    cli_pc \notin {"off", "span"} =>
        (cli_pc # "failed" /\ renderable_events = Projection)

RECURSIVE Excluded(_)
\* the rows an entry names, "a:b" standing for a up to and including b
Excluded(choices) ==
    IF choices = <<>> THEN {}
    ELSE (IF Head(choices).colon
          THEN Head(choices).start .. Head(choices).end
          ELSE {Head(choices).start}) \cup Excluded(Tail(choices))

\* the rows of the table that was shown first, without the excluded ones
Remaining(choices) ==
    SelectSeq(renderable_events.events,
              LAMBDA event :
                  event.start.day - ThisMonday \notin Excluded(choices))

\* C19: an entry removes the rows it names from the table shown first,
\* "a:b" naming a up to and including b; an empty entry returns that table
\* as it is; confirm_table returns only on an empty entry or when the user
\* has confirmed.
C19_FilterRounds ==
    /\ cli_pc = "confirm" =>
           new_events.events = Remaining(filter_choice)
    /\ (cli_pc = "returned" /\ filter_choice = <<>>) =>
           returned = renderable_events
    /\ cli_pc = "returned" =>
           (filter_choice = <<>> \/ user_not_yet_confirmed = TRUE)

---------------------------------------------------------------------------
(* The splitters as a state machine *)

MaxText == 3        \* characters of the two language texts together

Alphabet == {"a", " ", NBSP, "-", "<", ">"}

\* three or more "-" / "_", mixed ones too, and the runs main.py knows
DelimiterRuns ==
    {Repeat("-", 3), <<"-", "_", "-">>, Repeat("_", 3), Repeat("-", 4),
     Repeat("_", UnderscoresShort), Repeat("_", UnderscoresLong)}

Joints == DelimiterRuns \cup {<<>>, <<"|">>}

\* a text is  de joint en rest,  rest being empty or one more joint and text
Texts ==
    {p \in [de : ListsUpTo(Alphabet, MaxText),
            en : ListsUpTo(Alphabet, MaxText),
            joint : Joints, more : BOOLEAN] :
        Len(p.de) + Len(p.en) <= MaxText}

Joined(p) ==
    p.de \o p.joint \o p.en \o (IF p.more THEN p.joint \o <<"a">> ELSE <<>>)

SplitDescription ==
    /\ split_op = "none"
    /\ split_out' = DescriptionFromStr(text)
    /\ split_op' = "Description"
    /\ UNCHANGED <<text, parts>>
    /\ UNCHANGED overview_vars
    /\ UNCHANGED cli_vars

SplitTitle ==
    /\ split_op = "none"
    /\ split_out' = TitleFromStr(text)
    /\ split_op' = "Title"
    /\ UNCHANGED <<text, parts>>
    /\ UNCHANGED overview_vars
    /\ UNCHANGED cli_vars

SplitForOverview ==
    /\ split_op = "none"
    /\ \E t \in {0, 1} :
           split_out' = [t |-> t, event_description |-> EventDescription(text, t)]
    /\ split_op' = "overview"
    /\ UNCHANGED <<text, parts>>
    /\ UNCHANGED overview_vars
    /\ UNCHANGED cli_vars

\* a Description built from a German text alone, the English one left out
\* or left empty
GermanOnly ==
    /\ split_op = "none"
    /\ \E en \in {None, <<>>} : split_out' = DescriptionModel(text, en)
    /\ split_op' = "German only"
    /\ UNCHANGED <<text, parts>>
    /\ UNCHANGED overview_vars
    /\ UNCHANGED cli_vars

NextSplit ==
    \/ SplitDescription
    \/ SplitTitle
    \/ SplitForOverview
    \/ GermanOnly

InitSplit ==
    /\ parts \in Texts
    /\ text = Joined(parts)
    /\ split_op = "none"
    /\ split_out = <<>>
    /\ calendar = <<>>
    /\ shallow = TRUE
    /\ OverviewIdle
    /\ NoCli

SpecSplit == InitSplit /\ [][NextSplit]_vars

---------------------------------------------------------------------------
(* Properties of the splitters (SpecSplit) *)

\* s holds a run of three or more "-" / "_"
HasRun(s) == \E i \in 1 .. Len(s) : RunLength(SubSeq(s, i, Len(s))) >= 3

\* the text is  primary, one delimiter run, secondary  and both texts are
\* non-empty and free of delimiter runs
IsJoinOfTwo ==
    /\ parts.joint \in DelimiterRuns
    /\ ~ parts.more
    /\ parts.de # <<>> /\ ~ HasRun(parts.de)
    /\ parts.en # <<>> /\ ~ HasRun(parts.en)

Recovered == split_out = [de |-> parts.de, en |-> parts.en]

Plain(s) ==
    /\ Strip(s) = s
    /\ \A i \in 1 .. Len(s) : s[i] \notin {"<", NBSP}

Fallback(whole) == split_out = [de |-> whole, en |-> whole]

\* C10: a text that does not split into exactly two segments (no delimiter,
\* or more than two segments) gives primary = secondary = the whole cleaned
\* text, trimmed (the placeholder for an empty title); the splitter never
\* raises and never drops a third segment.
C10_TwoOrFallback ==
    /\ split_op \in {"Description", "Title"} => split_out # ValidationError
    /\ split_op = "Description" =>
           LET cleaned == RawDescriptionCleaned(text)
           IN Len(SplitRuns(cleaned, <<>>)) # 2 => Fallback(Strip(cleaned))
    /\ split_op = "Title" =>
           (Len(SplitOn(text, <<"|">>, <<>>)) # 2 =>
                Fallback(IF Strip(text) = <<>> THEN KeinTitel
                         ELSE Strip(text)))

\* the segments from_str cuts the text into, trimmed
Segments ==
    IF split_op = "Title" THEN StripAll(SplitOn(text, <<"|">>, <<>>))
    ELSE StripAll(SplitRuns(RawDescriptionCleaned(text), <<>>))

\* from_str returned a Title or Description
Produced ==
    split_op \in {"Description", "Title"} /\ split_out # ValidationError

\* the text carries nothing for the second language
NoSecondSupplied == Len(Segments) < 2 \/ Segments[2] = <<>>

C16_GermanOnlyField ==
    split_op = "German only" => split_out = [de |-> text, en |-> <<>>]

====
